---- MODULE Spec2Model ----
(***************************************************************************)
(* The AI quiz-generation pipeline of ClassNode-Quiz.                      *)
(*                                                                         *)
(*   v1  supabase/functions/generate-quiz-ai/index.ts   (Gemini backend)   *)
(*   v2  the edge function appended to src/pages/ForgotPassword.tsx        *)
(*       (generate-quiz-ai-v2, OpenAI backend)                             *)
(*   the CreateQuizAI form (unnamed/part_000) that invokes them            *)
(*                                                                         *)
(* A request is a process whose steps are the handler's awaits: between    *)
(* two awaits the code runs without interleaving, so each action is the    *)
(* code from one await's return to the next await (or to the response).    *)
(* The identity provider, the relational store and the generation backend  *)
(* are the environment: each action that resumes after an await draws the  *)
(* call's outcome from the outcomes that call can have.                    *)
(***************************************************************************)
EXTENDS Integers, Sequences, FiniteSets, TLC

\* ------------------------------------------------------------------ bounds
\* Longest question array the generation backend returns in the model.
MaxQuestions == 2
\* Number of requests the concurrent specification runs side by side.
NumReqs == 2

\* ------------------------------------------------------- JavaScript values
\* A JSON value as the handlers see it after JSON.parse. Numbers are kept in
\* halves (n2 = 2 * value) so that a non-integer such as 1.5 is a value.
Str(s) == [t |-> "string", s |-> s, n2 |-> 0, items |-> <<>>]
Num2(k) == [t |-> "number", s |-> "", n2 |-> k, items |-> <<>>]
Num(k) == Num2(2 * k)
Undef == [t |-> "undefined", s |-> "", n2 |-> 0, items |-> <<>>]
Arr(xs) == [t |-> "array", s |-> "", n2 |-> 0, items |-> xs]

\* !v for the values above: undefined, "" and 0 are falsy.
Falsy(v) ==
    \/ v.t = "undefined"
    \/ v.t = "string" /\ v.s = ""
    \/ v.t = "number" /\ v.n2 = 0

IsInteger(v) == v.t = "number" /\ v.n2 % 2 = 0

\* An element of the parsed array: an object with the three fields (a field
\* the model left out reads as undefined), or null.
Obj(text, options, co) ==
    [t |-> "object", text |-> text, options |-> options, correctOption |-> co]
NullElem == [t |-> "null", text |-> Undef, options |-> Undef, correctOption |-> Undef]

FourOptions == Arr(<<Str("A"), Str("B"), Str("C"), Str("D")>>)
ThreeOptions == Arr(<<Str("A"), Str("B"), Str("C")>>)
MixedOptions == Arr(<<Str("A"), Str("B"), Str("C"), Num(7)>>)

GoodA == Obj(Str("Q1"), FourOptions, Num(0))
GoodB == Obj(Str("Q2"), FourOptions, Num(3))
ElemOptions3 == Obj(Str("Q3"), ThreeOptions, Num(0))
ElemNoText == Obj(Undef, FourOptions, Num(1))
ElemNoCorrect == Obj(Str("Q4"), FourOptions, Undef)
ElemCorrect4 == Obj(Str("Q5"), FourOptions, Num(4))
ElemCorrectFrac == Obj(Str("Q6"), FourOptions, Num2(3))
ElemTextNumber == Obj(Num(5), FourOptions, Num(2))
ElemOptionNumber == Obj(Str("Q7"), MixedOptions, Num(2))

\* What the generation backend may put in one array position.
Elements ==
    {GoodA, GoodB, ElemOptions3, ElemNoText, ElemNoCorrect, ElemCorrect4,
     ElemCorrectFrac, ElemTextNumber, ElemOptionNumber, NullElem}

RECURSIVE SeqsUpTo(_, _)
SeqsUpTo(S, n) ==
    IF n = 0 THEN {<<>>}
    ELSE LET shorter == SeqsUpTo(S, n - 1)
         IN  shorter \cup {Append(s, x) : s \in {q \in shorter : Len(q) = n - 1}, x \in S}

\* A top-level JSON document: an array of elements, or something that is no
\* array (an object).
JsonArray(xs) == [t |-> "array", items |-> xs]
JsonObject == [t |-> "object", items |-> <<>>]
NoJson == [t |-> "none", items |-> <<>>]

\* ----------------------------------------------------- the completion text
\* The raw completion is a sequence of tokens: a markdown fence with or
\* without the json tag (three backticks, and three backticks followed by
\* json), a newline, prose, or one JSON document.
FenceJson == [tok |-> "fence_json", val |-> NoJson]
Fence == [tok |-> "fence", val |-> NoJson]
NL == [tok |-> "newline", val |-> NoJson]
Prose == [tok |-> "prose", val |-> NoJson]
Json(v) == [tok |-> "json", val |-> v]

\* String.prototype.replace with the fence's global pattern: every occurrence of the fence
\* token goes, with the newline right after it when there is one.
RECURSIVE RemoveFence(_, _)
RemoveFence(text, fence) ==
    IF text = <<>> THEN <<>>
    ELSE IF Head(text) = fence
         THEN IF Len(text) >= 2 /\ text[2] = NL
              THEN RemoveFence(SubSeq(text, 3, Len(text)), fence)
              ELSE RemoveFence(Tail(text), fence)
         ELSE <<Head(text)>> \o RemoveFence(Tail(text), fence)

\* String.prototype.trim(): whitespace at both ends goes.
RECURSIVE TrimStart(_)
TrimStart(text) ==
    IF text # <<>> /\ Head(text) = NL THEN TrimStart(Tail(text)) ELSE text

RECURSIVE TrimEnd(_)
TrimEnd(text) ==
    IF text # <<>> /\ text[Len(text)] = NL
    THEN TrimEnd(SubSeq(text, 1, Len(text) - 1))
    ELSE text

Trim(text) == TrimEnd(TrimStart(text))

\* v1, index.ts line 157.
CleanV1(text) == Trim(RemoveFence(RemoveFence(text, FenceJson), Fence))
\* v2, ForgotPassword.tsx line 177.
CleanV2(text) == Trim(text)
CleanText(v, text) == IF v = "v1" THEN CleanV1(text) ELSE CleanV2(text)

\* JSON.parse: the text must be exactly one JSON document (whitespace around
\* it is allowed); anything else throws.
JsonParse(text) ==
    LET t == Trim(text)
    IN  IF Len(t) = 1 /\ t[1].tok = "json"
        THEN [ok |-> TRUE, val |-> t[1].val]
        ELSE [ok |-> FALSE, val |-> NoJson]

\* --------------------------------------------------------------- validation
\* index.ts line 174: the structure test of one element.
StructureBad(q) ==
    \/ Falsy(q.text)
    \/ q.options.t # "array"
    \/ Len(q.options.items) # 4
    \/ q.correctOption.t # "number"

\* index.ts line 178: the range test, reached with correctOption a number.
RangeBad(q) == q.correctOption.n2 < 0 \/ q.correctOption.n2 > 2 * 3

\* The callback of questions.map at index.ts 173-187 throws on this element
\* (reading a field of null is a TypeError).
ThrowsV1(q) == q.t = "null" \/ StructureBad(q) \/ RangeBad(q)

\* Array.prototype.map stops at the first callback that throws: its position
\* (1-based here), or 0 when none throws.
FirstThrow(items) ==
    IF \E i \in 1..Len(items) : ThrowsV1(items[i])
    THEN CHOOSE i \in 1..Len(items) :
            /\ ThrowsV1(items[i])
            /\ \A j \in 1..(i - 1) : ~ThrowsV1(items[j])
    ELSE 0

\* An error as the catch block sees it: the message, and the number the
\* message cites (NoIndex when it cites none).
NoIndex == 0 - 1
Err(msg, cited) == [msg |-> msg, cited |-> cited]

\* The error the map callback throws for the element at 1-based position i;
\* the callback's index argument is i - 1.
ValidationError(q, i) ==
    IF q.t = "null" THEN Err("TypeError: Cannot read properties of null", NoIndex)
    ELSE IF StructureBad(q) THEN Err("Invalid question structure at index", i - 1)
    ELSE Err("Invalid correct option at question", (i - 1) + 1)

\* index.ts 182-186: the element the callback returns.
Mapped(q) == Obj(q.text, q.options, q.correctOption)

\* ---------------------------------------------------------------- room code
\* Number.prototype.toString(36) of what Math.random() returned, as its
\* characters: a long fraction, another one, 0.5 and 0.
RandomStrings ==
    {<<"0", ".", "4", "f", "z", "y", "o", "8", "2", "m", "v">>,
     <<"0", ".", "k", "3", "x", "9", "q", "w", "1", "b">>,
     <<"0", ".", "i">>,
     <<"0">>}

Lower == <<"a", "b", "c", "d", "e", "f", "g", "h", "i", "j", "k", "l", "m",
           "n", "o", "p", "q", "r", "s", "t", "u", "v", "w", "x", "y", "z">>
Upper == <<"A", "B", "C", "D", "E", "F", "G", "H", "I", "J", "K", "L", "M",
           "N", "O", "P", "Q", "R", "S", "T", "U", "V", "W", "X", "Y", "Z">>

UpperChar(c) ==
    IF \E i \in 1..Len(Lower) : Lower[i] = c
    THEN Upper[CHOOSE i \in 1..Len(Lower) : Lower[i] = c]
    ELSE c

ToUpperCase(str) == [i \in 1..Len(str) |-> UpperChar(str[i])]

\* String.prototype.substring(from, to) with 0-based from <= to: the
\* characters at from .. to - 1 that exist.
Substring(str, from, to) ==
    SubSeq(str, from + 1, IF to < Len(str) THEN to ELSE Len(str))

\* index.ts line 190, ForgotPassword.tsx lines 196-199.
RoomCode(random) == ToUpperCase(Substring(random, 2, 8))

\* ------------------------------------------------------------------- state
AllReqs == 1..NumReqs

VARIABLES
    pc,             \* where each request is: the await it is suspended at
    variant,        \* which function a request was sent to: "v1" or "v2"
    req,            \* the HTTP request: method, Authorization header, JSON body
    user,           \* authData.user.id once the token was verified
    completion,     \* the raw text the generation backend returned
    questions,      \* the handler's questions array
    roomCode,       \* the handler's roomCode
    quizData,       \* the row the quiz insert returned
    response,       \* the HTTP response, once returned
    calls,          \* the external calls the request has issued, in order
    outcomes,       \* how each of these calls that has returned ended, in order
    quizzes,        \* table quizzes
    quiz_questions, \* table quiz_questions
    nextId,         \* the store's next quiz identifier
    formData,       \* CreateQuizAI: the form's QuizParams
    loading,        \* CreateQuizAI: the loading flag
    page,           \* CreateQuizAI: the await handleSubmit is suspended at
    toast,          \* CreateQuizAI: the last toast shown
    authUser,       \* AuthProvider: user
    authRoomCode,   \* AuthProvider: roomCode
    isLoading,      \* AuthProvider: isLoading
    isPasswordRecovery, \* AuthProvider: isPasswordRecovery
    session,        \* the auth client's session: whose it is
    authPc,         \* AuthProvider: where each of its async functions is suspended
    authEvents      \* auth state change events emitted, not yet handled

reqVars == <<pc, variant, req, user, completion, questions, roomCode, quizData,
             response, calls, outcomes>>
storeVars == <<quizzes, quiz_questions, nextId>>
pageVars == <<formData, loading, page, toast>>
authVars == <<authUser, authRoomCode, isLoading, isPasswordRecovery, session,
              authPc, authEvents>>
vars == <<reqVars, storeVars, pageVars, authVars>>

\* Principals the identity provider knows, and the rows of table teachers.
Principals == {"t1", "s1"}
Teachers == {"t1"}
NoUser == "none"

\* QuizParams (index.ts 11-19, part_000 13-21); text is kept as its
\* characters. complexity, title and description take part in the prompt and
\* in the quiz row's title and description only, and are left out.
QuizParams(subject, topic, n, t) ==
    [subject |-> subject, topic |-> topic, numQuestions |-> n, timePerQuestion |-> t]
Params(n, t) == QuizParams(<<"M">>, <<"A">>, n, t)
NoBody == QuizParams(<<>>, <<>>, 0, 0)

\* What the handler reads of the Request object.
Request(method, hasAuth, b) == [method |-> method, hasAuth |-> hasAuth, body |-> b]
NoRequest == Request("", FALSE, NoBody)

NoErr == Err("", NoIndex)
NoQuiz == [id |-> 0, roomCode |-> <<>>, questionsCount |-> 0]
NoRow == [id |-> 0, time_per_question |-> 0, room_code |-> <<>>,
          created_by |-> NoUser, quiz_type |-> ""]

\* AuthProvider (QuizPreviewModal.tsx 130-524). A User or null: name and
\* email are carried along unread and are left out; login makes its id from
\* the clock and Math.random. A room code or null.
NullUser == [t |-> "null", id |-> "", role |-> ""]
TeacherUser(id) == [t |-> "object", id |-> id, role |-> "teacher"]
LocalUser(role) == [t |-> "object", id |-> "local", role |-> role]
NullCode == [t |-> "null", s |-> <<>>]
Code(str) == [t |-> "string", s |-> str]

\* The async functions of the provider, and where one is suspended: the await,
\* the account it is working for, its newRoomCode, and how the signOut of
\* logout ended (a signOut that threw stays on record once logout is over).
AuthFunctions == {"checkSession", "teacherLogin", "teacherSignup", "logout"}
Suspend(at, id, code) == [at |-> at, id |-> id, code |-> code, result |-> ""]
Idle == Suspend("idle", NoUser, NullCode)

\* corsHeaders: index.ts lines 5-9 and ForgotPassword.tsx lines 64-69.
CorsHeaders(v) ==
    IF v = "v1"
    THEN [allowOrigin |-> "*",
          allowMethods |-> {},
          allowHeaders |-> {"authorization", "Authorization", "x-client-info",
                            "apikey", "content-type"}]
    ELSE [allowOrigin |-> "*",
          allowMethods |-> {"POST", "OPTIONS"},
          allowHeaders |-> {"Content-Type", "Authorization", "apikey",
                            "x-client-info"}]

NoResponse ==
    [status |-> 0, success |-> FALSE, hasBody |-> FALSE, error |-> NoErr,
     cors |-> CorsHeaders("v1"), quiz |-> NoQuiz, questions |-> <<>>]

\* new Response(JSON.stringify({error, success: false}), {status, headers}).
ErrorResponse(v, status, err) ==
    [status |-> status, success |-> FALSE, hasBody |-> TRUE, error |-> err,
     cors |-> CorsHeaders(v), quiz |-> NoQuiz, questions |-> <<>>]

\* index.ts 238-250, ForgotPassword.tsx 252-265 (the status defaults to 200).
SuccessResponse(v, row, qs) ==
    [status |-> 200, success |-> TRUE, hasBody |-> TRUE, error |-> NoErr,
     cors |-> CorsHeaders(v),
     quiz |-> [id |-> row.id, roomCode |-> row.room_code, questionsCount |-> Len(qs)],
     questions |-> qs]

\* new Response(null, {headers: corsHeaders}).
PreflightResponse(v) ==
    [status |-> 200, success |-> FALSE, hasBody |-> FALSE, error |-> NoErr,
     cors |-> CorsHeaders(v), quiz |-> NoQuiz, questions |-> <<>>]

Init ==
    /\ pc = [r \in AllReqs |-> "idle"]
    /\ variant = [r \in AllReqs |-> "v1"]
    /\ req = [r \in AllReqs |-> NoRequest]
    /\ user = [r \in AllReqs |-> NoUser]
    /\ completion = [r \in AllReqs |-> <<>>]
    /\ questions = [r \in AllReqs |-> <<>>]
    /\ roomCode = [r \in AllReqs |-> <<>>]
    /\ quizData = [r \in AllReqs |-> NoRow]
    /\ response = [r \in AllReqs |-> NoResponse]
    /\ calls = [r \in AllReqs |-> <<>>]
    /\ outcomes = [r \in AllReqs |-> <<>>]
    /\ quizzes = {}
    /\ quiz_questions = {}
    /\ nextId = 1
    /\ formData = QuizParams(<<>>, <<>>, 5, 30)
    /\ loading = FALSE
    /\ page = "idle"
    /\ toast = ""
    /\ authUser = NullUser
    /\ authRoomCode = NullCode
    /\ isLoading = TRUE
    /\ isPasswordRecovery = FALSE
    /\ session = NoUser
    /\ authPc = [f \in AuthFunctions |-> Idle]
    /\ authEvents = <<>>

\* ------------------------------------------------------- handler, shared
\* The request returns `resp`.
Finish(r, resp) ==
    /\ response' = [response EXCEPT ![r] = resp]
    /\ pc' = [pc EXCEPT ![r] = "done"]

\* CatchResponse answering a caught error as a client error.
CatchResponse400(v, err) == ErrorResponse(v, 400, err)

\* The catch block: index.ts 252-261, ForgotPassword.tsx 267-280.
CatchResponse(v, err) == ErrorResponse(v, 500, err)

\* The call the request is suspended at returns with `outcome`.
Resume(r, outcome) == outcomes' = [outcomes EXCEPT ![r] = Append(@, outcome)]

\* The request issues an external call and suspends at `at`.
Await(r, call, at) ==
    /\ calls' = [calls EXCEPT ![r] = Append(@, call)]
    /\ pc' = [pc EXCEPT ![r] = at]

\* No authorization header / the token is rejected: v1 returns 401
\* (index.ts 41-49, 56-64), v2 throws into its catch block
\* (ForgotPassword.tsx 103-105, 111-113).
UnauthenticatedResponse(v, msg) ==
    IF v = "v1"
    THEN ErrorResponse(v, 401, Err(msg, NoIndex))
    ELSE CatchResponse(v, Err(msg, NoIndex))

\* No teacher record: v1 returns 403 (index.ts 76-84), v2 throws
\* (ForgotPassword.tsx 122-124).
ForbiddenResponse(v) ==
    IF v = "v1"
    THEN ErrorResponse(v, 403, Err("Access denied: Teachers only", NoIndex))
    ELSE CatchResponse(v, Err("Access denied: Teachers only", NoIndex))

\* The request arrives: method check, client construction, header check, and
\* the call to auth.getUser (index.ts 27-53, ForgotPassword.tsx 87-109).
\* It says nothing about the variables outside reqVars and storeVars.
ReceiveRequest(r, v, method, hasAuth, b) ==
    /\ pc[r] = "idle"
    /\ variant' = [variant EXCEPT ![r] = v]
    /\ req' = [req EXCEPT ![r] = Request(method, hasAuth, b)]
    /\ IF method = "OPTIONS"
       THEN Finish(r, PreflightResponse(v)) /\ UNCHANGED calls
       ELSE IF ~hasAuth
            THEN Finish(r, UnauthenticatedResponse(v, "No authorization header"))
                 /\ UNCHANGED calls
            ELSE Await(r, "auth.getUser", "getUser") /\ UNCHANGED response
    /\ UNCHANGED <<user, completion, questions, roomCode, quizData, outcomes, storeVars>>

\* auth.getUser returns (index.ts 53-66, ForgotPassword.tsx 108-113), and the
\* teacher lookup is issued (index.ts 69-73, ForgotPassword.tsx 116-120).
GetUserOutcomes == {"ok", "rejected", "nouser", "throw"}

GetUserReturn(r) ==
    /\ pc[r] = "getUser"
    /\ \E outcome \in GetUserOutcomes, principal \in Principals :
        /\ Resume(r, outcome)
        /\ IF outcome = "throw"
           THEN /\ Finish(r, CatchResponse(variant[r], Err("network error", NoIndex)))
                /\ UNCHANGED <<user, calls>>
           ELSE IF outcome # "ok"
                THEN /\ Finish(r, UnauthenticatedResponse(variant[r], "Authentication failed"))
                     /\ UNCHANGED <<user, calls>>
                ELSE /\ user' = [user EXCEPT ![r] = principal]
                     /\ Await(r, "teachers.select", "teacherLookup")
                     /\ UNCHANGED response
    /\ UNCHANGED <<variant, req, completion, questions, roomCode, quizData, storeVars,
                   pageVars, authVars>>

\* What .from('teachers').select('id').eq('id', id).single() can answer: the
\* row when there is one, an error when there is none or the lookup failed.
TeacherLookupOutcomes(id) ==
    (IF id \in Teachers THEN {"found"} ELSE {"notfound"}) \cup {"error", "throw"}

\* TeacherLookupReturn failing open: only a missing row is refused, a lookup
\* error is taken for a teacher.
TeacherLookupReturnFailOpen(r) ==
    /\ pc[r] = "teacherLookup"
    /\ \E outcome \in TeacherLookupOutcomes(user[r]) :
        /\ Resume(r, outcome)
        /\ IF outcome = "throw"
           THEN /\ Finish(r, CatchResponse(variant[r], Err("network error", NoIndex)))
                /\ UNCHANGED calls
           ELSE IF outcome = "notfound"
                THEN /\ Finish(r, ForbiddenResponse(variant[r]))
                     /\ UNCHANGED calls
                ELSE /\ Await(r, "generate", "generating")
                     /\ UNCHANGED response
    /\ UNCHANGED <<variant, req, user, completion, questions, roomCode, quizData,
                   storeVars, pageVars, authVars>>

\* The teacher lookup returns; the body is read, the prompt built, the API
\* key read and the generation backend called
\* (index.ts 74-138, ForgotPassword.tsx 122-168).
TeacherLookupReturn(r) ==
    /\ pc[r] = "teacherLookup"
    /\ \E outcome \in TeacherLookupOutcomes(user[r]), keyConfigured \in BOOLEAN :
        /\ Resume(r, outcome)
        /\ IF outcome = "throw"
           THEN /\ Finish(r, CatchResponse(variant[r], Err("network error", NoIndex)))
                /\ UNCHANGED calls
           ELSE IF outcome # "found"
                THEN /\ Finish(r, ForbiddenResponse(variant[r]))
                     /\ UNCHANGED calls
                ELSE IF ~keyConfigured
                     THEN /\ Finish(r, CatchResponse(variant[r],
                                       Err("API key not configured", NoIndex)))
                          /\ UNCHANGED calls
                     ELSE /\ Await(r, "generate", "generating")
                          /\ UNCHANGED response
    /\ UNCHANGED <<variant, req, user, completion, questions, roomCode, quizData,
                   storeVars, pageVars, authVars>>

\* Cleaning, parsing and validating the completion: index.ts 153-187,
\* ForgotPassword.tsx 177-193 (v2 has the array test and no element test).
ParseQuestions(v, text) ==
    LET parsed == JsonParse(CleanText(v, text))
        items == parsed.val.items
        bad == [ok |-> FALSE, err |-> NoErr, questions |-> <<>>]
    IN  IF ~parsed.ok
        THEN [bad EXCEPT !.err =
                Err(IF v = "v1" THEN "Failed to parse AI-generated questions"
                                ELSE "AI returned invalid JSON", NoIndex)]
        ELSE IF parsed.val.t # "array" \/ Len(items) = 0
        THEN [bad EXCEPT !.err = Err("AI did not generate valid questions", NoIndex)]
        ELSE IF v = "v1" /\ FirstThrow(items) # 0
        THEN [bad EXCEPT !.err =
                ValidationError(items[FirstThrow(items)], FirstThrow(items))]
        ELSE [ok |-> TRUE, err |-> NoErr,
              questions |-> IF v = "v1" THEN [i \in 1..Len(items) |-> Mapped(items[i])]
                                        ELSE items]

GenerateOutcomes == {"ok", "throw", "http_error", "no_completion"}

\* GenerateReturn with a re-prompt: a completion that fails to parse or to
\* validate sends the handler back to the generation backend.
GenerateReturnRetry(r, Texts) ==
    /\ pc[r] = "generating"
    /\ \E outcome \in GenerateOutcomes, text \in Texts, random \in RandomStrings :
        LET result == ParseQuestions(variant[r], text)
        IN  /\ Resume(r, outcome)
            /\ IF outcome # "ok"
               THEN /\ Finish(r, CatchResponse(variant[r], Err("API error", NoIndex)))
                    /\ UNCHANGED <<completion, questions, roomCode, calls>>
               ELSE /\ completion' = [completion EXCEPT ![r] = text]
                    /\ IF ~result.ok
                       THEN /\ Await(r, "generate", "generating")
                            /\ UNCHANGED <<questions, roomCode, response>>
                       ELSE /\ questions' = [questions EXCEPT ![r] = result.questions]
                            /\ roomCode' = [roomCode EXCEPT ![r] = RoomCode(random)]
                            /\ Await(r, "quizzes.insert", "insertQuiz")
                            /\ UNCHANGED response
    /\ UNCHANGED <<variant, req, user, quizData, storeVars, pageVars, authVars>>

\* GenerateReturn with a retry on a non-success HTTP status: the fetch is
\* issued again instead of throwing.
GenerateReturnRetryOnError(r, Texts) ==
    /\ pc[r] = "generating"
    /\ \E outcome \in GenerateOutcomes, text \in Texts, random \in RandomStrings :
        LET result == ParseQuestions(variant[r], text)
        IN  /\ Resume(r, outcome)
            /\ IF outcome = "http_error"
               THEN /\ Await(r, "generate", "generating")
                    /\ UNCHANGED <<completion, questions, roomCode, response>>
               ELSE IF outcome # "ok"
               THEN /\ Finish(r, CatchResponse(variant[r],
                           Err(CASE outcome = "throw" -> "network error"
                                 [] OTHER -> "Invalid response from API", NoIndex)))
                    /\ UNCHANGED <<completion, questions, roomCode, calls>>
               ELSE /\ completion' = [completion EXCEPT ![r] = text]
                    /\ IF ~result.ok
                       THEN /\ Finish(r, CatchResponse(variant[r], result.err))
                            /\ UNCHANGED <<questions, roomCode, calls>>
                       ELSE /\ questions' = [questions EXCEPT ![r] = result.questions]
                            /\ roomCode' = [roomCode EXCEPT ![r] = RoomCode(random)]
                            /\ Await(r, "quizzes.insert", "insertQuiz")
                            /\ UNCHANGED response
    /\ UNCHANGED <<variant, req, user, quizData, storeVars, pageVars, authVars>>

\* The fetch returns: status test, completion extraction, cleaning, parsing,
\* validation, room code, and the quiz insert is issued
\* (index.ts 140-208, ForgotPassword.tsx 170-222).
GenerateReturn(r, Texts) ==
    /\ pc[r] = "generating"
    /\ \E outcome \in GenerateOutcomes, text \in Texts, random \in RandomStrings :
        LET result == ParseQuestions(variant[r], text)
        IN  /\ Resume(r, outcome)
            /\ IF outcome # "ok"
               THEN /\ Finish(r, CatchResponse(variant[r],
                           Err(CASE outcome = "throw" -> "network error"
                                 [] outcome = "http_error" -> "API error"
                                 [] OTHER -> "Invalid response from API", NoIndex)))
                    /\ UNCHANGED <<completion, questions, roomCode, calls>>
               ELSE /\ completion' = [completion EXCEPT ![r] = text]
                    /\ IF ~result.ok
                       THEN /\ Finish(r, CatchResponse(variant[r], result.err))
                            /\ UNCHANGED <<questions, roomCode, calls>>
                       ELSE /\ questions' = [questions EXCEPT ![r] = result.questions]
                            /\ roomCode' = [roomCode EXCEPT ![r] = RoomCode(random)]
                            /\ Await(r, "quizzes.insert", "insertQuiz")
                            /\ UNCHANGED response
    /\ UNCHANGED <<variant, req, user, quizData, storeVars, pageVars, authVars>>

\* The row of index.ts 199-206 / ForgotPassword.tsx 213-220, with the
\* identifier the store assigns.
QuizRow(r, id) ==
    [id |-> id,
     time_per_question |-> req[r].body.timePerQuestion,
     room_code |-> roomCode[r],
     created_by |-> user[r],
     quiz_type |-> "classnode"]

\* QuestionsToInsert stamping the callback's index as it is: order_num runs
\* from 0.
QuestionsToInsertZeroBased(qs, id) ==
    {[quiz_id |-> id,
      text |-> qs[i].text,
      options |-> qs[i].options,
      correct_option |-> qs[i].correctOption,
      order_num |-> i - 1] : i \in 1..Len(qs)}

\* index.ts 217-223, ForgotPassword.tsx 232-238.
QuestionsToInsert(qs, id) ==
    {[quiz_id |-> id,
      text |-> qs[i].text,
      options |-> qs[i].options,
      correct_option |-> qs[i].correctOption,
      order_num |-> (i - 1) + 1] : i \in 1..Len(qs)}

\* The map callback of questionsToInsert reads q.text: a TypeError on null.
InsertMapThrows(qs) == \E i \in 1..Len(qs) : qs[i].t = "null"

QuizInsertOutcomes == {"ok", "error", "nodata", "throw"}

\* InsertQuizReturn with a shared cleanup path: a failed quiz insert is
\* followed by the compensating delete as a failed question insert is.
InsertQuizReturnCleanup(r) ==
    /\ pc[r] = "insertQuiz"
    /\ \E outcome \in QuizInsertOutcomes :
        /\ Resume(r, outcome)
        /\ IF outcome = "throw"
           THEN /\ Finish(r, CatchResponse(variant[r], Err("network error", NoIndex)))
                /\ UNCHANGED <<quizData, calls, storeVars>>
           ELSE IF outcome # "ok"
                THEN /\ Await(r, "quizzes.delete", "deleteQuiz")
                     /\ UNCHANGED <<quizData, response, storeVars>>
                ELSE /\ quizzes' = quizzes \cup {QuizRow(r, nextId)}
                     /\ nextId' = nextId + 1
                     /\ quizData' = [quizData EXCEPT ![r] = QuizRow(r, nextId)]
                     /\ UNCHANGED quiz_questions
                     /\ Await(r, "quiz_questions.insert", "insertQuestions")
                     /\ UNCHANGED response
    /\ UNCHANGED <<variant, req, user, completion, questions, roomCode, pageVars, authVars>>

\* InsertQuizReturn testing quizError only: an insert that returned no row and
\* no error is taken for a success, and the question insert is issued.
InsertQuizReturnErrorOnly(r) ==
    /\ pc[r] = "insertQuiz"
    /\ \E outcome \in QuizInsertOutcomes :
        /\ Resume(r, outcome)
        /\ IF outcome \in {"throw", "error"}
           THEN /\ Finish(r, CatchResponse(variant[r], Err("Failed to create quiz", NoIndex)))
                /\ UNCHANGED <<quizData, calls, storeVars>>
           ELSE IF outcome = "nodata"
                THEN /\ Await(r, "quiz_questions.insert", "insertQuestions")
                     /\ UNCHANGED <<quizData, response, storeVars>>
                ELSE /\ quizzes' = quizzes \cup {QuizRow(r, nextId)}
                     /\ nextId' = nextId + 1
                     /\ quizData' = [quizData EXCEPT ![r] = QuizRow(r, nextId)]
                     /\ UNCHANGED quiz_questions
                     /\ Await(r, "quiz_questions.insert", "insertQuestions")
                     /\ UNCHANGED response
    /\ UNCHANGED <<variant, req, user, completion, questions, roomCode, pageVars, authVars>>

\* The quiz insert returns; the question rows are built and their insert is
\* issued (index.ts 210-227, ForgotPassword.tsx 224-242).
InsertQuizReturn(r) ==
    /\ pc[r] = "insertQuiz"
    /\ \E outcome \in QuizInsertOutcomes :
        /\ Resume(r, outcome)
        /\ IF outcome # "ok"
           THEN /\ Finish(r, CatchResponse(variant[r],
                       Err(IF outcome = "throw" THEN "network error"
                                                ELSE "Failed to create quiz", NoIndex)))
                /\ UNCHANGED <<quizData, calls, storeVars>>
           ELSE /\ quizzes' = quizzes \cup {QuizRow(r, nextId)}
                /\ nextId' = nextId + 1
                /\ quizData' = [quizData EXCEPT ![r] = QuizRow(r, nextId)]
                /\ UNCHANGED quiz_questions
                /\ IF InsertMapThrows(questions[r])
                   THEN /\ Finish(r, CatchResponse(variant[r],
                               Err("TypeError: Cannot read properties of null", NoIndex)))
                        /\ UNCHANGED calls
                   ELSE /\ Await(r, "quiz_questions.insert", "insertQuestions")
                        /\ UNCHANGED response
    /\ UNCHANGED <<variant, req, user, completion, questions, roomCode, pageVars, authVars>>

StoreOutcomes == {"ok", "error", "throw"}

\* The question insert returns: success response, or the compensating delete
\* is issued (index.ts 229-250, ForgotPassword.tsx 244-265).
InsertQuestionsReturn(r) ==
    /\ pc[r] = "insertQuestions"
    /\ \E outcome \in StoreOutcomes :
        /\ Resume(r, outcome)
        /\ CASE outcome = "ok" ->
                /\ quiz_questions' =
                      quiz_questions \cup QuestionsToInsert(questions[r], quizData[r].id)
                /\ Finish(r, SuccessResponse(variant[r], quizData[r], questions[r]))
                /\ UNCHANGED calls
             [] outcome = "error" ->
                /\ Await(r, "quizzes.delete", "deleteQuiz")
                /\ UNCHANGED <<response, quiz_questions>>
             [] OTHER ->
                /\ Finish(r, CatchResponse(variant[r], Err("network error", NoIndex)))
                /\ UNCHANGED <<calls, quiz_questions>>
    /\ UNCHANGED <<variant, req, user, completion, questions, roomCode, quizData,
                   quizzes, nextId, pageVars, authVars>>

\* DeleteQuizReturn without the throw after the cleanup: once the delete has
\* returned the handler falls through to the success response.
DeleteQuizReturnSwallow(r) ==
    /\ pc[r] = "deleteQuiz"
    /\ \E outcome \in StoreOutcomes :
        /\ Resume(r, outcome)
        /\ quizzes' = IF outcome = "ok"
                      THEN {q \in quizzes : q.id # quizData[r].id}
                      ELSE quizzes
        /\ IF outcome = "throw"
           THEN Finish(r, CatchResponse(variant[r], Err("network error", NoIndex)))
           ELSE Finish(r, SuccessResponse(variant[r], quizData[r], questions[r]))
    /\ UNCHANGED <<variant, req, user, completion, questions, roomCode, quizData,
                   calls, quiz_questions, nextId, pageVars, authVars>>

\* DeleteQuizReturn with the cleanup keyed by the caller instead of the row:
\* .delete().eq('created_by', user.id).
DeleteQuizReturnByCreator(r) ==
    /\ pc[r] = "deleteQuiz"
    /\ \E outcome \in StoreOutcomes :
        /\ Resume(r, outcome)
        /\ quizzes' = IF outcome = "ok"
                      THEN {q \in quizzes : q.created_by # user[r]}
                      ELSE quizzes
        /\ Finish(r, CatchResponse(variant[r],
                Err(IF outcome = "throw" THEN "network error"
                    ELSE "Failed to create quiz questions", NoIndex)))
    /\ UNCHANGED <<variant, req, user, completion, questions, roomCode, quizData,
                   calls, quiz_questions, nextId, pageVars, authVars>>

\* The delete returns; its result is not read, and the handler throws
\* (index.ts 232-233, ForgotPassword.tsx 246-247).
DeleteQuizReturn(r) ==
    /\ pc[r] = "deleteQuiz"
    /\ \E outcome \in StoreOutcomes :
        /\ Resume(r, outcome)
        /\ quizzes' = IF outcome = "ok"
                      THEN {q \in quizzes : q.id # quizData[r].id}
                      ELSE quizzes
        /\ Finish(r, CatchResponse(variant[r],
                Err(IF outcome = "throw" THEN "network error"
                    ELSE "Failed to create quiz questions", NoIndex)))
    /\ UNCHANGED <<variant, req, user, completion, questions, roomCode, quizData,
                   calls, quiz_questions, nextId, pageVars, authVars>>

\* ----------------------------------------------------------- environment
\* The request bodies sent directly to a function.
Bodies == {Params(2, 30), Params(1, 30), Params(0, 30), Params(21, 30), Params(2, -5)}

\* The JSON documents the generation backend returns.
Documents ==
    {JsonArray(xs) : xs \in SeqsUpTo(Elements, MaxQuestions)} \cup {JsonObject}

\* A document as the backend may wrap it.
Plain(doc) == <<Json(doc)>>
FencedJson(doc) == <<FenceJson, NL, Json(doc), NL, Fence>>
Fenced(doc) == <<Fence, NL, Json(doc), NL, Fence>>

Completions ==
    {Plain(d) : d \in Documents} \cup {FencedJson(d) : d \in Documents}
        \cup {Fenced(d) : d \in Documents} \cup {<<Prose>>}

Variants == {"v1", "v2"}
Methods == {"POST", "OPTIONS"}

\* A request sent straight to one of the two functions.
DirectRequest(r) ==
    /\ \E v \in Variants, method \in Methods, hasAuth \in BOOLEAN, b \in Bodies :
        ReceiveRequest(r, v, method, hasAuth, b)
    /\ UNCHANGED <<pageVars, authVars>>

HandlerStep(r, Texts) ==
    \/ GetUserReturn(r)
    \/ TeacherLookupReturn(r)
    \/ GenerateReturn(r, Texts)
    \/ InsertQuizReturn(r)
    \/ InsertQuestionsReturn(r)
    \/ DeleteQuizReturn(r)

\* One request, every completion.
Next == DirectRequest(1) \/ HandlerStep(1, Completions)

Spec == Init /\ [][Next]_vars

\* Two concurrent requests / the page: a few completions, of each kind one.
FewCompletions ==
    {Plain(JsonArray(<<GoodA>>)),
     Plain(JsonArray(<<GoodA, GoodB>>)),
     Plain(JsonArray(<<GoodA, ElemCorrect4>>)),
     FencedJson(JsonArray(<<GoodB>>)),
     <<Prose>>}

\* One request with every awaited call returning: the call the request is
\* suspended at (identity provider, store or generation backend) eventually
\* answers, with a result or an error, and the handler resumes.
NextLive == DirectRequest(1) \/ HandlerStep(1, FewCompletions)
SpecLive == Init /\ [][NextLive]_vars /\ WF_vars(HandlerStep(1, FewCompletions))

\* Requests with identical QuizParams, each sent to either function, with or
\* without the Authorization header; their steps interleave at the awaits.
ConcBody == Params(2, 30)

ConcRequest(r) ==
    /\ \E v \in Variants, hasAuth \in BOOLEAN :
        ReceiveRequest(r, v, "POST", hasAuth, ConcBody)
    /\ UNCHANGED <<pageVars, authVars>>

NextConc == \E r \in AllReqs : ConcRequest(r) \/ HandlerStep(r, FewCompletions)

SpecConc == Init /\ [][NextConc]_vars

\* --------------------------------------------------- the CreateQuizAI page
Digits == <<"0", "1", "2", "3", "4", "5", "6", "7", "8", "9">>
IsDigit(c) == \E i \in 1..Len(Digits) : Digits[i] = c
DigitValue(c) == (CHOOSE i \in 1..Len(Digits) : Digits[i] = c) - 1

\* The value of the longest prefix of digits of str, continuing from acc.
RECURSIVE DigitsValue(_, _)
DigitsValue(str, acc) ==
    IF str = <<>> \/ ~IsDigit(Head(str)) THEN acc
    ELSE DigitsValue(Tail(str), 10 * acc + DigitValue(Head(str)))

\* parseInt: an optional sign and the digits that follow; NaN without a digit.
ParseInt(str) ==
    LET neg == str # <<>> /\ Head(str) = "-"
        rest == IF neg THEN Tail(str) ELSE str
    IN  IF rest = <<>> \/ ~IsDigit(Head(rest))
        THEN [nan |-> TRUE, n |-> 0]
        ELSE [nan |-> FALSE,
              n |-> IF neg THEN 0 - DigitsValue(rest, 0) ELSE DigitsValue(rest, 0)]

\* parseInt(value) || fallback: NaN and 0 are falsy.
ParseIntOr(str, fallback) ==
    IF ParseInt(str).nan \/ ParseInt(str).n = 0 THEN fallback ELSE ParseInt(str).n

\* !str.trim(): nothing is left of a string of whitespace.
IsBlank(str) == \A i \in 1..Len(str) : str[i] = " "

\* What a user may type into the text inputs and into the number inputs.
TypedTexts == {<<" ">>, <<"M">>}
TypedNumbers == {<<>>, <<"0">>, <<"2", "1">>, <<"-", "5">>}

\* The request the page's function invocation is. The model follows the page
\* up to the one invocation it makes and then follows that request: the user
\* types while no invocation has been sent.
PageReq == CHOOSE r \in AllReqs : \A other \in AllReqs : r <= other
FormOpen == pc[PageReq] = "idle"

\* part_000 42-47 with the onChange handlers of lines 197, 211, 231, 274; the
\* inputs are disabled while loading.
HandleInputChange ==
    /\ ~loading
    /\ FormOpen
    /\ \E text \in TypedTexts, number \in TypedNumbers :
        \/ formData' = [formData EXCEPT !.subject = text]
        \/ formData' = [formData EXCEPT !.topic = text]
        \/ formData' = [formData EXCEPT !.numQuestions = ParseIntOr(number, 5)]
        \/ formData' = [formData EXCEPT !.timePerQuestion = ParseIntOr(number, 30)]
    /\ UNCHANGED <<loading, page, toast, reqVars, storeVars, authVars>>

\* part_000 52-60: the tests that make handleSubmit return early.
RequiredFieldMissing(f) == IsBlank(f.subject) \/ IsBlank(f.topic)
NumQuestionsOutOfRange(f) == f.numQuestions < 1 \/ f.numQuestions > 20

\* part_000 49-66: handleSubmit up to its first await (the submit button is
\* disabled while loading).
HandleSubmit ==
    /\ ~loading /\ page = "idle"
    /\ IF RequiredFieldMissing(formData)
       THEN /\ toast' = "Please fill in all required fields"
            /\ UNCHANGED <<loading, page>>
       ELSE IF NumQuestionsOutOfRange(formData)
            THEN /\ toast' = "Number of questions must be between 1 and 20"
                 /\ UNCHANGED <<loading, page>>
            ELSE /\ loading' = TRUE
                 /\ page' = "refreshSession"
                 /\ UNCHANGED toast
    /\ UNCHANGED <<formData, reqVars, storeVars, authVars>>

\* part_000 93-106: the catch and finally blocks.
SubmitFailed(msg) ==
    /\ toast' = msg
    /\ loading' = FALSE
    /\ page' = "idle"

\* part_000 77-79: supabase.functions.invoke('generate-quiz-ai', {body:
\* formData}); the client library sends the Authorization header.
InvokeFunction ==
    /\ ReceiveRequest(PageReq, "v1", "POST", TRUE, formData)
    /\ page' = "invoke"
    /\ UNCHANGED <<formData, loading, toast, authVars>>

\* part_000 66-79: refreshSession returns.
RefreshSessionReturn ==
    /\ page = "refreshSession"
    /\ \/ InvokeFunction
       \/ /\ page' = "getSession"
          /\ UNCHANGED <<formData, loading, toast, reqVars, storeVars, authVars>>
       \/ /\ SubmitFailed("network error")
          /\ UNCHANGED <<formData, reqVars, storeVars, authVars>>

\* part_000 70-79: getSession returns.
GetSessionReturn ==
    /\ page = "getSession"
    /\ \/ InvokeFunction
       \/ /\ SubmitFailed("Please log in again to continue")
          /\ UNCHANGED <<formData, reqVars, storeVars, authVars>>

\* part_000 81-106: the invocation returns.
InvokeReturn ==
    /\ page = "invoke"
    /\ pc[PageReq] = "done"
    /\ toast' = IF response[PageReq].status # 200
                THEN "Edge Function returned a non-2xx status code"
                ELSE IF ~response[PageReq].success
                     THEN "Quiz generation failed"
                     ELSE "Quiz created successfully"
    /\ loading' = FALSE
    /\ page' = "idle"
    /\ UNCHANGED <<formData, reqVars, storeVars, authVars>>

\* part_000 335-347: the TEST NEW AI (V2) button, never disabled, invokes
\* generate-quiz-ai-v2 with the form as it is.
TestV2Click ==
    /\ ReceiveRequest(PageReq, "v2", "POST", TRUE, formData)
    /\ UNCHANGED <<formData, loading, page, toast, authVars>>

\* The page and the functions it invokes.
NextPage ==
    \/ HandleInputChange
    \/ HandleSubmit
    \/ RefreshSessionReturn
    \/ GetSessionReturn
    \/ InvokeReturn
    \/ TestV2Click
    \/ HandlerStep(PageReq, FewCompletions)

SpecPage == Init /\ [][NextPage]_vars

\* ---------------------------------------------------------- auth context
\* QuizPreviewModal.tsx 130-524. The provider's functions interleave at their
\* awaits; resetPassword and updatePassword touch neither user nor roomCode
\* and are left out.
MaxEvents == 1
AuthRandoms == {<<"0", ".", "4", "f", "z", "y", "o", "8", "2", "m", "v">>}
\* room_code of the teacher's active quiz, as the store holds it.
ActiveQuizCode == Code(<<"Q", "U", "I", "Z", "0", "1">>)
QuizLookupOutcomes == {"quiz", "none", "throw"}
SignInOutcomes == {"ok", "error", "nouser", "throw"}
SignOutOutcomes == {"ok", "error", "throw"}

otherVars == <<reqVars, storeVars, pageVars>>
At(f) == authPc[f].at
Goto(f, to) == authPc' = [authPc EXCEPT ![f] = to]
\* The children, which call the context's functions, are rendered only when
\* isLoading is false (lines 495-497).
Mounted == ~isLoading
\* The auth client notifies the listeners of onAuthStateChange.
Emit(e) ==
    /\ Len(authEvents) < MaxEvents
    /\ authEvents' = Append(authEvents, e)

\* The effect of lines 138-262 runs (on mount, and when navigate,
\* isPasswordRecovery or location.pathname change): checkSession starts. A
\* recovery link in the URL ends it at once (lines 184-189), setSession taking
\* the link's tokens; else it awaits getSession, with the isPasswordRecovery of
\* its closure.
RunEffect ==
    /\ At("checkSession") = "idle"
    /\ \E isRecovery \in BOOLEAN :
        IF isRecovery
        THEN /\ isPasswordRecovery' = TRUE
             /\ isLoading' = FALSE
             /\ session' \in Principals
             /\ UNCHANGED authPc
        ELSE /\ Goto("checkSession",
                     Suspend(IF isPasswordRecovery THEN "getSessionInRecovery"
                             ELSE "getSession", NoUser, NullCode))
             /\ UNCHANGED <<isPasswordRecovery, isLoading, session>>
    /\ UNCHANGED <<authUser, authRoomCode, authEvents, otherVars>>

\* Lines 191-199, 226-230: getSession returns.
CheckSessionGetSessionReturn ==
    /\ At("checkSession") \in {"getSession", "getSessionInRecovery"}
    /\ \E throws \in BOOLEAN :
        IF ~throws /\ session # NoUser /\ At("checkSession") = "getSession"
        THEN /\ Goto("checkSession", Suspend("teachers.select", session, NullCode))
             /\ UNCHANGED isLoading
        ELSE /\ Goto("checkSession", Idle)
             /\ isLoading' = FALSE
    /\ UNCHANGED <<authUser, authRoomCode, isPasswordRecovery, session, authEvents,
                   otherVars>>

\* Lines 195-217: the teachers row arrives, or does not.
CheckSessionTeachersReturn ==
    /\ At("checkSession") = "teachers.select"
    /\ \E outcome \in TeacherLookupOutcomes(authPc["checkSession"].id) :
        IF outcome = "found"
        THEN /\ authUser' = TeacherUser(authPc["checkSession"].id)
             /\ Goto("checkSession",
                     Suspend("quizzes.select", authPc["checkSession"].id, NullCode))
             /\ UNCHANGED isLoading
        ELSE /\ Goto("checkSession", Idle)
             /\ isLoading' = FALSE
             /\ UNCHANGED authUser
    /\ UNCHANGED <<authRoomCode, isPasswordRecovery, session, authEvents, otherVars>>

\* Lines 211-230: the active quiz arrives, or does not.
CheckSessionQuizzesReturn ==
    /\ At("checkSession") = "quizzes.select"
    /\ \E outcome \in QuizLookupOutcomes :
        authRoomCode' = IF outcome = "quiz" THEN ActiveQuizCode ELSE authRoomCode
    /\ Goto("checkSession", Idle)
    /\ isLoading' = FALSE
    /\ UNCHANGED <<authUser, isPasswordRecovery, session, authEvents, otherVars>>

\* The listener of lines 236-255 handles the oldest event.
OnAuthStateChange ==
    /\ authEvents # <<>>
    /\ authEvents' = Tail(authEvents)
    /\ CASE Head(authEvents) = "PASSWORD_RECOVERY" ->
                /\ isPasswordRecovery' = (session # NoUser \/ isPasswordRecovery)
                /\ UNCHANGED <<authUser, authRoomCode>>
         [] Head(authEvents) = "SIGNED_OUT" ->
                /\ authUser' = NullUser
                /\ authRoomCode' = NullCode
                /\ isPasswordRecovery' = FALSE
         [] OTHER -> UNCHANGED <<authUser, authRoomCode, isPasswordRecovery>>
    /\ UNCHANGED <<isLoading, session, authPc, otherVars>>

\* The auth client ends the session on its own (a sign-out in another tab, a
\* refresh token that is refused) or opens a recovery session.
ExternalEvent ==
    /\ \/ Emit("SIGNED_OUT") /\ session' = NoUser
       \/ Emit("PASSWORD_RECOVERY") /\ session' \in Principals
    /\ UNCHANGED <<authUser, authRoomCode, isLoading, isPasswordRecovery, authPc,
                   otherVars>>

\* Lines 332-337: teacherLogin is called with the credentials of `account`.
TeacherLogin ==
    /\ Mounted
    /\ At("teacherLogin") = "idle"
    /\ \E account \in Principals :
        Goto("teacherLogin", Suspend("signIn", account, NullCode))
    /\ isLoading' = TRUE
    /\ UNCHANGED <<authUser, authRoomCode, isPasswordRecovery, session, authEvents,
                   otherVars>>

\* Lines 337-351, 395-402: signInWithPassword returns.
TeacherLoginSignInReturn ==
    /\ At("teacherLogin") = "signIn"
    /\ \E outcome \in SignInOutcomes :
        IF outcome = "ok"
        THEN /\ session' = authPc["teacherLogin"].id
             /\ Emit("SIGNED_IN")
             /\ Goto("teacherLogin",
                     Suspend("teachers.select", authPc["teacherLogin"].id, NullCode))
             /\ UNCHANGED isLoading
        ELSE /\ Goto("teacherLogin", Idle)
             /\ isLoading' = FALSE
             /\ UNCHANGED <<session, authEvents>>
    /\ UNCHANGED <<authUser, authRoomCode, isPasswordRecovery, otherVars>>

\* Lines 353-374, 396-402: the teachers row arrives, or teacherError does.
TeacherLoginTeachersReturn ==
    /\ At("teacherLogin") = "teachers.select"
    /\ \E outcome \in TeacherLookupOutcomes(authPc["teacherLogin"].id) :
        IF outcome = "found"
        THEN /\ authUser' = TeacherUser(authPc["teacherLogin"].id)
             /\ Goto("teacherLogin",
                     Suspend("quizzes.select", authPc["teacherLogin"].id, NullCode))
             /\ UNCHANGED isLoading
        ELSE /\ Goto("teacherLogin", Idle)
             /\ isLoading' = FALSE
             /\ UNCHANGED authUser
    /\ UNCHANGED <<authRoomCode, isPasswordRecovery, session, authEvents, otherVars>>

\* Lines 376-402: the active quiz arrives, or does not.
TeacherLoginQuizzesReturn ==
    /\ At("teacherLogin") = "quizzes.select"
    /\ \E outcome \in QuizLookupOutcomes :
        authRoomCode' = CASE outcome = "quiz" -> ActiveQuizCode
                          [] outcome = "none" -> NullCode
                          [] OTHER -> authRoomCode
    /\ Goto("teacherLogin", Idle)
    /\ isLoading' = FALSE
    /\ UNCHANGED <<authUser, isPasswordRecovery, session, authEvents, otherVars>>

\* Lines 264-279: teacherSignup is called for `account`, which has no teachers
\* row yet.
TeacherSignup ==
    /\ Mounted
    /\ At("teacherSignup") = "idle"
    /\ \E account \in Principals \ Teachers :
        Goto("teacherSignup", Suspend("signUp", account, NullCode))
    /\ isLoading' = TRUE
    /\ UNCHANGED <<authUser, authRoomCode, isPasswordRecovery, session, authEvents,
                   otherVars>>

\* Lines 270-300, 322-329: signUp returns; with a user, and a session when the
\* project signs new accounts in, the teachers insert is issued.
TeacherSignupSignUpReturn ==
    /\ At("teacherSignup") = "signUp"
    /\ \E outcome \in SignInOutcomes :
        IF outcome = "ok"
        THEN /\ \E random \in AuthRandoms :
                Goto("teacherSignup",
                     Suspend("teachers.insert", authPc["teacherSignup"].id,
                             Code(RoomCode(random))))
             /\ \/ session' = authPc["teacherSignup"].id /\ Emit("SIGNED_IN")
                \/ UNCHANGED <<session, authEvents>>
             /\ UNCHANGED isLoading
        ELSE /\ Goto("teacherSignup", Idle)
             /\ isLoading' = FALSE
             /\ UNCHANGED <<session, authEvents>>
    /\ UNCHANGED <<authUser, authRoomCode, isPasswordRecovery, otherVars>>

\* Lines 292-329: the teachers insert returns.
TeacherSignupInsertReturn ==
    /\ At("teacherSignup") = "teachers.insert"
    /\ \E outcome \in StoreOutcomes :
        IF outcome = "ok"
        THEN /\ authUser' = TeacherUser(authPc["teacherSignup"].id)
             /\ authRoomCode' = authPc["teacherSignup"].code
        ELSE UNCHANGED <<authUser, authRoomCode>>
    /\ Goto("teacherSignup", Idle)
    /\ isLoading' = FALSE
    /\ UNCHANGED <<isPasswordRecovery, session, authEvents, otherVars>>

\* login(name, role), lines 405-432.
Login ==
    /\ Mounted
    /\ \E role \in {"teacher", "student"}, random \in AuthRandoms :
        /\ authUser' = LocalUser(role)
        /\ authRoomCode' = IF role = "teacher" THEN Code(RoomCode(random))
                           ELSE authRoomCode
    /\ UNCHANGED <<isLoading, isPasswordRecovery, session, authPc, authEvents,
                   otherVars>>

\* setRoomCode(code), as the context hands it out (line 508).
SetRoomCode ==
    /\ Mounted
    /\ \E code \in {NullCode, ActiveQuizCode} : authRoomCode' = code
    /\ UNCHANGED <<authUser, isLoading, isPasswordRecovery, session, authPc,
                   authEvents, otherVars>>

\* logout(), lines 478-481: signOut is called.
Logout ==
    /\ Mounted
    /\ At("logout") = "idle"
    /\ Goto("logout", Suspend("signOut", NoUser, NullCode))
    /\ UNCHANGED <<authUser, authRoomCode, isLoading, isPasswordRecovery, session,
                   authEvents, otherVars>>

\* SignOutReturn with the cleanup in a finally block: user and roomCode are
\* cleared when signOut throws as well.
SignOutReturnFinally ==
    /\ At("logout") = "signOut"
    /\ \E outcome \in SignOutOutcomes :
        CASE outcome = "ok" ->
                /\ session' = NoUser
                /\ Emit("SIGNED_OUT")
                /\ Goto("logout", [authPc["logout"] EXCEPT !.at = "resume", !.result = "ok"])
                /\ UNCHANGED <<authUser, authRoomCode>>
          [] outcome = "error" ->
                /\ Goto("logout", [authPc["logout"] EXCEPT !.at = "resume", !.result = "error"])
                /\ UNCHANGED <<session, authEvents, authUser, authRoomCode>>
          [] OTHER ->
                /\ Goto("logout", [Idle EXCEPT !.result = "throw"])
                /\ authUser' = NullUser
                /\ authRoomCode' = NullCode
                /\ UNCHANGED <<session, authEvents>>
    /\ UNCHANGED <<isLoading, isPasswordRecovery, otherVars>>

\* Lines 481, 489-492: signOut ends. When it signed out, the session is gone
\* and the listeners are notified; when it returns an error, nothing reads it;
\* when it throws, the catch block shows a toast and logout is over.
SignOutReturn ==
    /\ At("logout") = "signOut"
    /\ \E outcome \in SignOutOutcomes :
        CASE outcome = "ok" ->
                /\ session' = NoUser
                /\ Emit("SIGNED_OUT")
                /\ Goto("logout", [authPc["logout"] EXCEPT !.at = "resume", !.result = "ok"])
          [] outcome = "error" ->
                /\ Goto("logout", [authPc["logout"] EXCEPT !.at = "resume", !.result = "error"])
                /\ UNCHANGED <<session, authEvents>>
          [] OTHER ->
                /\ Goto("logout", [Idle EXCEPT !.result = "throw"])
                /\ UNCHANGED <<session, authEvents>>
    /\ UNCHANGED <<authUser, authRoomCode, isLoading, isPasswordRecovery, otherVars>>

\* Lines 483-488: logout resumes after signOut, which has awaited its
\* listeners.
LogoutResume ==
    /\ At("logout") = "resume"
    /\ authEvents = <<>>
    /\ authUser' = NullUser
    /\ authRoomCode' = NullCode
    /\ Goto("logout", Idle)
    /\ UNCHANGED <<isLoading, isPasswordRecovery, session, authEvents, otherVars>>

NextAuth ==
    \/ RunEffect
    \/ CheckSessionGetSessionReturn
    \/ CheckSessionTeachersReturn
    \/ CheckSessionQuizzesReturn
    \/ OnAuthStateChange
    \/ ExternalEvent
    \/ TeacherLogin
    \/ TeacherLoginSignInReturn
    \/ TeacherLoginTeachersReturn
    \/ TeacherLoginQuizzesReturn
    \/ TeacherSignup
    \/ TeacherSignupSignUpReturn
    \/ TeacherSignupInsertReturn
    \/ Login
    \/ SetRoomCode
    \/ Logout
    \/ SignOutReturn
    \/ LogoutResume

SpecAuth == Init /\ [][NextAuth]_vars

\* ------------------------------------------------------------- properties
Issued(r, call) == \E i \in 1..Len(calls[r]) : calls[r][i] = call

StoreWrites == {"quizzes.insert", "quiz_questions.insert", "quizzes.delete"}
WroteToStore(r) == \E c \in StoreWrites : Issued(r, c)

Returned(r) == pc[r] = "done"

QuizExists(id) == \E q \in quizzes : q.id = id
QuestionRows(id) == {row \in quiz_questions : row.quiz_id = id}

\* C1: once a request whose quiz insert succeeded and whose question insert
\* failed (so that it issued the compensating delete) has returned, the quiz
\* row it created is not in the store, whatever the delete call answered.
C1_QuizGoneAfterFailedQuestionInsert ==
    \A r \in AllReqs :
        (Returned(r) /\ quizData[r] # NoRow /\ Issued(r, "quizzes.delete"))
            => ~QuizExists(quizData[r].id)

\* The structural checks C2 names: exactly 4 options and 0 <= correctOption < 4.
PassesStructuralChecks(q) ==
    /\ q.t = "object"
    /\ q.options.t = "array"
    /\ Len(q.options.items) = 4
    /\ q.correctOption.t = "number"
    /\ 0 <= q.correctOption.n2
    /\ q.correctOption.n2 < 2 * 4

\* C2: in either variant, a request issues an insert into quizzes or
\* quiz_questions only if every element of the parsed model output passed the
\* structural checks; a batch with any violating element causes no store write.
C2_ValidationPrecedesPersistence ==
    \A r \in AllReqs :
        WroteToStore(r) =>
            \A i \in 1..Len(questions[r]) : PassesStructuralChecks(questions[r][i])

\* C3: in either variant, a request without an Authorization header, or whose
\* token the identity provider rejects, is answered 401 with success:false,
\* and no teacher lookup, generation call or store write is made for it.
C3_Unauthenticated401 ==
    \A r \in AllReqs :
        (/\ Returned(r)
         /\ req[r].method = "POST"
         /\ \/ ~req[r].hasAuth
            \/ calls[r] = <<"auth.getUser">> /\ response[r].error.msg = "Authentication failed")
            => /\ response[r].status = 401
               /\ response[r].hasBody /\ ~response[r].success
               /\ ~Issued(r, "teachers.select")
               /\ ~Issued(r, "generate")
               /\ ~WroteToStore(r)

\* C4: in either variant, when the teacher lookup of an authenticated
\* principal returns no record or an error, the request is answered 403, the
\* generation backend is not called and nothing is written to the store.
C4_FailClosed403 ==
    \A r \in AllReqs :
        (/\ Returned(r)
         /\ user[r] # NoUser
         /\ calls[r] = <<"auth.getUser", "teachers.select">>
         /\ response[r].error.msg = "Access denied: Teachers only")
            => /\ response[r].status = 403
               /\ ~Issued(r, "generate")
               /\ ~WroteToStore(r)

\* C5: in every state of the store, the states between a request's two
\* inserts included, no quiz row created by the handler has zero question rows.
C5_NoQuizWithoutQuestions ==
    \A q \in quizzes : QuestionRows(q.id) # {}

ValidParams(b) ==
    /\ b.numQuestions \in 1..20
    /\ b.timePerQuestion > 0

\* C6: a success response to a request with valid QuizParams and
\* numQuestions = N carries exactly N questions, reports questionsCount = N,
\* and N question rows were inserted for its quiz, however many well-formed
\* questions the model returned.
C6_ExactlyNQuestions ==
    \A r \in AllReqs :
        (Returned(r) /\ response[r].success /\ ValidParams(req[r].body))
            => /\ Len(response[r].questions) = req[r].body.numQuestions
               /\ response[r].quiz.questionsCount = req[r].body.numQuestions
               /\ Cardinality(QuestionRows(response[r].quiz.id)) = req[r].body.numQuestions

\* C7: a generate-quiz request whose numQuestions is outside 1..20 fails
\* before any network call is made: the form's submit makes no call for it, and
\* the handler issues no identity-provider, generation or store call for it and
\* does not answer it with success.
C7_NumQuestionsRejectedBeforeAnyCall ==
    /\ page # "idle" => formData.numQuestions \in 1..20
    /\ \A r \in AllReqs :
        (req[r].method = "POST" /\ req[r].body.numQuestions \notin 1..20)
            => /\ calls[r] = <<>>
               /\ Returned(r) => ~response[r].success

\* C8: timePerQuestion is range-checked before any external call: the page
\* makes no network call for a form whose timePerQuestion is not positive, no
\* request carrying one reaches the identity provider, the generation backend
\* or the store, and no quiz row has a non-positive time_per_question.
C8_TimePerQuestionRejectedBeforeAnyCall ==
    /\ page # "idle" => formData.timePerQuestion > 0
    /\ \A r \in AllReqs :
        (req[r].method = "POST" /\ req[r].body.timePerQuestion <= 0) => calls[r] = <<>>
    /\ \A q \in quizzes : q.time_per_question > 0

\* The types C9 names.
IsNonEmptyString(v) == v.t = "string" /\ v.s # ""
IsFourStrings(v) ==
    /\ v.t = "array"
    /\ Len(v.items) = 4
    /\ \A i \in 1..Len(v.items) : v.items[i].t = "string"
IsIndex0to3(v) == IsInteger(v) /\ 0 <= v.n2 /\ v.n2 <= 2 * 3

\* C9: every question row persisted by either variant has a non-empty string
\* as text, exactly 4 strings as options and an integer in 0..3 as
\* correctOption; output with a non-integer correctOption, a non-string option
\* or a non-string text is rejected with no write.
C9_PersistedQuestionsWellTyped ==
    /\ \A row \in quiz_questions :
        /\ IsNonEmptyString(row.text)
        /\ IsFourStrings(row.options)
        /\ IsIndex0to3(row.correct_option)
    /\ \A r \in AllReqs :
        WroteToStore(r) =>
            \A i \in 1..Len(questions[r]) :
                /\ questions[r][i].t = "object"
                /\ IsNonEmptyString(questions[r][i].text)
                /\ IsFourStrings(questions[r][i].options)
                /\ IsIndex0to3(questions[r][i].correctOption)

\* The violations C10 names: missing text, options not of length 4,
\* correctOption missing or outside 0..3.
StructuralViolation(q) ==
    \/ q.t # "object"
    \/ q.text.t = "undefined"
    \/ q.options.t # "array"
    \/ Len(q.options.items) # 4
    \/ q.correctOption.t = "undefined"
    \/ q.correctOption.t = "number" /\ (q.correctOption.n2 < 0 \/ q.correctOption.n2 > 2 * 3)

\* The array the handler parsed out of the completion it received (empty when
\* there was none).
ParsedOutput(r) ==
    LET parsed == JsonParse(CleanText(variant[r], completion[r]))
    IN  IF completion[r] # <<>> /\ parsed.ok /\ parsed.val.t = "array"
        THEN parsed.val.items
        ELSE <<>>

\* C10: in either variant, when the first structural violation of the model
\* output is at array position i (0-based), the request fails with status 500,
\* the error message cites i, and no quiz row is created.
C10_FirstViolationCited ==
    \A r \in AllReqs :
        \A p \in 1..Len(ParsedOutput(r)) :
            (/\ StructuralViolation(ParsedOutput(r)[p])
             /\ \A j \in 1..(p - 1) : ~StructuralViolation(ParsedOutput(r)[j]))
                => /\ Returned(r)
                   /\ response[r].status = 500
                   /\ response[r].error.cited = p - 1
                   /\ ~Issued(r, "quizzes.insert")

\* The cleaned completion the handler received does not parse as JSON.
ParseFails(r) ==
    /\ completion[r] # <<>>
    /\ ~JsonParse(CleanText(variant[r], completion[r])).ok

CallCount(r, call) == Cardinality({i \in 1..Len(calls[r]) : calls[r][i] = call})

\* C11: when the cleaned completion text does not parse as JSON, the request
\* has ended with status 500 and success:false, the generation backend was
\* called once only (no re-prompt), and the request created no quiz row and no
\* question row.
C11_MalformedGenerationFails ==
    \A r \in AllReqs :
        ParseFails(r) =>
            /\ Returned(r)
            /\ response[r].status = 500
            /\ response[r].hasBody /\ ~response[r].success
            /\ CallCount(r, "generate") = 1
            /\ ~WroteToStore(r)
            /\ quizData[r] = NoRow

\* Prose instead of JSON in v1, and fenced JSON (which v2 does not unwrap) in
\* v2, have both been answered.
C11_Witness ==
    \E r \in AllReqs :
        /\ ParseFails(r)
        /\ Returned(r)
        /\ \/ variant[r] = "v1" /\ completion[r] = <<Prose>>
           \/ variant[r] = "v2" /\ completion[r] = FencedJson(JsonArray(<<GoodA>>))

IsPrefix(a, b) == Len(a) <= Len(b) /\ SubSeq(b, 1, Len(a)) = a

\* Two requests met the same environment: the same request, the same answers
\* of the identity provider, the teacher lookup and the store to the calls
\* both made, the same principal and the same raw completion, and neither
\* failed inside its Generation Client for want of an API key.
SameRun(r1, r2) ==
    /\ req[r1] = req[r2]
    /\ IsPrefix(outcomes[r1], outcomes[r2]) \/ IsPrefix(outcomes[r2], outcomes[r1])
    /\ (user[r1] # NoUser /\ user[r2] # NoUser) => user[r1] = user[r2]
    /\ (completion[r1] # <<>> /\ completion[r2] # <<>>) => completion[r1] = completion[r2]
    /\ response[r1].error.msg # "API key not configured"
    /\ response[r2].error.msg # "API key not configured"

\* The rows a request left in the store, without the identifier the store
\* assigned and the room code drawn at random.
RowsLeft(r) ==
    [quizzes |-> {[q EXCEPT !.id = 0, !.room_code = <<>>] :
                    q \in {x \in quizzes : x.id = quizData[r].id}},
     quiz_questions |-> {[row EXCEPT !.quiz_id = 0] : row \in QuestionRows(quizData[r].id)}]

\* C12: the two variants are identical outside the Generation Client: a v1
\* request and a v2 request that met the same environment have returned the
\* same HTTP status and left the same rows in the store.
C12_VariantsAgree ==
    \A r1, r2 \in AllReqs :
        (/\ variant[r1] = "v1" /\ variant[r2] = "v2"
         /\ Returned(r1) /\ Returned(r2)
         /\ SameRun(r1, r2))
            => /\ response[r1].status = response[r2].status
               /\ RowsLeft(r1) = RowsLeft(r2)

\* A completion that is one JSON document between an opening fence (with or
\* without the json tag) and a closing fence.
IsFenced(text) ==
    /\ Len(text) = 5
    /\ text[1] \in {FenceJson, Fence}
    /\ text[2] = NL
    /\ text[3].tok = "json"
    /\ text[4] = NL
    /\ text[5] = Fence

\* A well-formed question array: not empty, every element a question with a
\* non-empty text, 4 string options and a correctOption in 0..3.
WellFormedArray(doc) ==
    /\ doc.t = "array"
    /\ Len(doc.items) > 0
    /\ \A i \in 1..Len(doc.items) :
        /\ doc.items[i].t = "object"
        /\ IsNonEmptyString(doc.items[i].text)
        /\ IsFourStrings(doc.items[i].options)
        /\ IsIndex0to3(doc.items[i].correctOption)

AllOk(r) == \A i \in 1..Len(outcomes[r]) : outcomes[r][i] \in {"ok", "found"}

\* C13: in either variant, a completion that is a well-formed question array
\* wrapped in code-fence markers is unwrapped before parsing: the handler goes
\* on to the quiz insert with the array's questions and, the store answering
\* ok, succeeds and persists the rows it persists for the unwrapped text.
C13_FencedJsonUnwrapped ==
    \A r \in AllReqs :
        (IsFenced(completion[r]) /\ WellFormedArray(completion[r][3].val))
            => /\ Issued(r, "quizzes.insert")
               /\ questions[r] = completion[r][3].val.items
               /\ (Returned(r) /\ AllOk(r))
                    => /\ response[r].success
                       /\ QuestionRows(quizData[r].id) =
                            QuestionsToInsert(completion[r][3].val.items, quizData[r].id)

\* C14: two successful calls with identical QuizParams, one after the other or
\* concurrent, have created two distinct quiz rows whose room codes differ, and
\* no two quiz rows in the store share a room code.
C14_DistinctRoomCodes ==
    /\ \A r1, r2 \in AllReqs :
        (/\ r1 # r2
         /\ Returned(r1) /\ response[r1].success
         /\ Returned(r2) /\ response[r2].success
         /\ req[r1].body = req[r2].body)
            => /\ response[r1].quiz.id # response[r2].quiz.id
               /\ response[r1].quiz.roomCode # response[r2].quiz.roomCode
    /\ \A q1, q2 \in quizzes : q1.id # q2.id => q1.room_code # q2.room_code

IsUpperOrDigit(c) == (\E i \in 1..Len(Upper) : Upper[i] = c) \/ IsDigit(c)

\* C15: every room code written to a quiz row is exactly 6 characters long
\* and consists of uppercase letters and digits only, whatever the random
\* source returned.
C15_RoomCodeSixUpperAlnum ==
    \A q \in quizzes :
        /\ Len(q.room_code) = 6
        /\ \A i \in 1..Len(q.room_code) : IsUpperOrDigit(q.room_code[i])

\* Header names compare without regard to case.
AllowsHeader(cors, spellings) == \E h \in cors.allowHeaders : h \in spellings

\* C16: in either variant an OPTIONS preflight request is answered at once,
\* with no identity-provider, store or generation call, and the response
\* headers allow any origin, allow the POST method, and allow the
\* Authorization and Content-Type headers.
C16_PreflightAllowsPost ==
    \A r \in AllReqs :
        (req[r].method = "OPTIONS" /\ pc[r] # "idle")
            => /\ Returned(r)
               /\ calls[r] = <<>>
               /\ response[r].cors.allowOrigin = "*"
               /\ "POST" \in response[r].cors.allowMethods
               /\ AllowsHeader(response[r].cors, {"Authorization", "authorization"})
               /\ AllowsHeader(response[r].cors, {"Content-Type", "content-type"})

\* The external calls of the stages, in the order of the pipeline:
\* Authenticating, Authorizing, Generating, and the three calls of Persisting.
StageOrder ==
    <<"auth.getUser", "teachers.select", "generate",
      "quizzes.insert", "quiz_questions.insert", "quizzes.delete">>

\* C17: within one request the stages occur in the pipeline's order only and
\* none is entered twice; the generation backend is called only after the token
\* check and the teacher lookup have both succeeded, and a store write happens
\* only after generation has returned a completion that was parsed.
C17_StagesInOrder ==
    \A r \in AllReqs :
        /\ IsPrefix(calls[r], StageOrder)
        /\ Len(outcomes[r]) <= Len(calls[r])
        /\ Issued(r, "generate")
            => /\ Len(outcomes[r]) >= 2
               /\ outcomes[r][1] = "ok" /\ user[r] # NoUser
               /\ outcomes[r][2] = "found"
        /\ WroteToStore(r)
            => /\ Len(outcomes[r]) >= 3
               /\ outcomes[r][3] = "ok"
               /\ completion[r] # <<>>
               /\ questions[r] # <<>>

\* A request went through every stage, the compensating delete included.
C17_Witness ==
    \E r \in AllReqs : Returned(r) /\ calls[r] = StageOrder

\* The i-th call of the request returned a failure.
CallFailed(r, i) == outcomes[r][i] \notin {"ok", "found"}

\* C18: any stage failure short-circuits the request. After the first call
\* that failed no call of a later stage was issued, except the compensating
\* delete right after a failed question insert; a completion the handler's
\* parsing or validation refuses is followed by no call at all; and a request
\* in which a stage failed returns an error response with success:false.
C18_FailureShortCircuits ==
    \A r \in AllReqs :
        /\ \A i \in 1..Len(outcomes[r]) :
            CallFailed(r, i)
                => /\ \/ Len(calls[r]) = i
                      \/ /\ calls[r][i] = "quiz_questions.insert"
                         /\ Len(calls[r]) = i + 1
                         /\ calls[r][i + 1] = "quizzes.delete"
                   /\ pc[r] \in {"done", "deleteQuiz"}
                   /\ Returned(r) => (response[r].hasBody /\ ~response[r].success
                                        /\ response[r].status # 200)
        /\ (completion[r] # <<>> /\ ~ParseQuestions(variant[r], completion[r]).ok)
            => /\ Returned(r)
               /\ Len(calls[r]) = 3
               /\ response[r].hasBody /\ ~response[r].success
        /\ (Returned(r) /\ req[r].method = "POST" /\ Len(outcomes[r]) < 5)
            => (response[r].hasBody /\ ~response[r].success /\ response[r].status # 200)

\* A failed question insert was followed by the compensating delete, which
\* failed too, and the request returned.
C18_Witness ==
    \E r \in AllReqs :
        /\ Returned(r)
        /\ Len(outcomes[r]) = 6
        /\ CallFailed(r, 5) /\ CallFailed(r, 6)

C20_QuizInsertFailureStops ==
    \A r \in AllReqs :
        (Len(outcomes[r]) >= 4 /\ CallFailed(r, 4))
            => /\ Returned(r)
               /\ response[r].status = 500
               /\ response[r].hasBody /\ ~response[r].success
               /\ calls[r] = SubSeq(StageOrder, 1, 4)
               /\ quizData[r] = NoRow
               /\ quizzes = {} /\ quiz_questions = {} /\ nextId = 1

\* The quiz insert returned neither a row nor an error, and the request was
\* answered.
C20_Witness ==
    \E r \in AllReqs :
        /\ Returned(r)
        /\ Len(outcomes[r]) = 4
        /\ outcomes[r][4] = "nodata"

\* C21: for every committed quiz with n questions, its question rows all
\* reference the quiz's identifier and carry the order_num values 1..n, each
\* once, and the row with order_num k holds the k-th element of the array the
\* handler parsed and validated: text, options and correctOption unchanged.
C21_OrderNumOneToN ==
    \A r \in AllReqs :
        (Returned(r) /\ response[r].success)
            => LET n == Len(ParsedOutput(r))
                   rows == QuestionRows(quizData[r].id)
               IN  /\ n > 0
                   /\ response[r].quiz.id = quizData[r].id
                   /\ Cardinality(rows) = n
                   /\ \A row \in rows : row.order_num \in 1..n
                   /\ \A k \in 1..n :
                        \E row \in rows :
                            /\ row.order_num = k
                            /\ row.quiz_id = quizData[r].id
                            /\ row.text = ParsedOutput(r)[k].text
                            /\ row.options = ParsedOutput(r)[k].options
                            /\ row.correct_option = ParsedOutput(r)[k].correctOption

\* A quiz with two different questions was committed.
C21_Witness ==
    \E r \in AllReqs :
        /\ Returned(r) /\ response[r].success
        /\ Len(ParsedOutput(r)) = 2
        /\ ParsedOutput(r)[1] # ParsedOutput(r)[2]

\* C22: the generation backend is called at most once per request. A
\* generation call that failed (the fetch rejected, a non-success status, or a
\* response without the completion field) is the request's last call: the
\* request has returned status 500 with success:false and wrote nothing to the
\* store. A request of a verified teacher that met no API credential returned
\* the same failure having issued no generation call.
C22_GenerationCalledOnce ==
    \A r \in AllReqs :
        /\ CallCount(r, "generate") <= 1
        /\ \A i \in 1..Len(outcomes[r]) :
            (calls[r][i] = "generate" /\ CallFailed(r, i))
                => /\ Returned(r)
                   /\ Len(calls[r]) = i
                   /\ response[r].status = 500
                   /\ ~response[r].success
                   /\ ~WroteToStore(r)
        /\ (Returned(r) /\ Len(outcomes[r]) = 2 /\ AllOk(r))
                => /\ response[r].error = Err("API key not configured", NoIndex)
                   /\ response[r].status = 500
                   /\ ~response[r].success
                   /\ ~Issued(r, "generate")
                   /\ ~WroteToStore(r)

\* A generation call answered with a non-success status and the request has
\* returned; the store is as it was.
C22_Witness ==
    /\ quizzes = {} /\ quiz_questions = {}
    /\ \E r \in AllReqs :
        /\ Returned(r)
        /\ Len(outcomes[r]) = 3 /\ outcomes[r][3] = "http_error"

\* C23: every quiz row in the store was inserted by a request, and the row a
\* request inserted has created_by equal to the principal the identity
\* provider returned for that request's bearer token, for whom the teacher
\* lookup of the same request found a record: a request without the header,
\* with a rejected token or of a non-teacher inserted no quiz row.
C23_CreatedByVerifiedTeacher ==
    /\ \A q \in quizzes : \E r \in AllReqs : quizData[r] = q
    /\ \A r \in AllReqs :
        (quizData[r] # NoRow \/ Issued(r, "quizzes.insert"))
            => /\ req[r].hasAuth
               /\ Len(outcomes[r]) >= 2
               /\ calls[r][1] = "auth.getUser" /\ outcomes[r][1] = "ok"
               /\ calls[r][2] = "teachers.select" /\ outcomes[r][2] = "found"
               /\ user[r] \in Teachers
               /\ quizData[r] # NoRow => quizData[r].created_by = user[r]

\* A quiz row is in the store, inserted by a verified teacher's request.
C23_Witness ==
    \E r \in AllReqs :
        /\ quizData[r] \in quizzes
        /\ quizData[r].created_by = user[r]
        /\ user[r] \in Teachers

Suspended(r) == pc[r] \notin {"idle", "done"}

IsPreflight(r) == req[r].method = "OPTIONS"

C25_RequestsIsolated ==
    /\ [][/\ \A q \in quizzes \ quizzes' :
                \E r \in AllReqs :
                    /\ pc[r] = "deleteQuiz" /\ pc'[r] = "done"
                    /\ quizData[r] = q
            /\ quiz_questions \subseteq quiz_questions']_vars
    /\ [](\A r \in AllReqs :
            (Returned(r) /\ response[r].success)
                => /\ quizData[r] \in quizzes
                   /\ QuestionRows(quizData[r].id)
                        = QuestionsToInsert(questions[r], quizData[r].id))

\* One request committed its quiz and questions; another request of the same
\* teacher, which had inserted its quiz row while the first was in flight,
\* rolled its own row back and returned.
C25_Witness ==
    \E r1, r2 \in AllReqs :
        /\ r1 # r2
        /\ Returned(r1) /\ response[r1].success
        /\ quizData[r1] \in quizzes
        /\ QuestionRows(quizData[r1].id) # {}
        /\ Returned(r2) /\ quizData[r2] # NoRow
        /\ Len(outcomes[r2]) = 6 /\ outcomes[r2][6] = "ok"
        /\ quizData[r2] \notin quizzes
        /\ user[r1] = user[r2]
        /\ quizData[r2].id < quizData[r1].id

LogoutAt(at) == authPc["logout"].at = at

\* C26: in the auth context, whatever login, teacherLogin, teacherSignup and
\* setRoomCode did before, the step in which the listener handles a SIGNED_OUT
\* event, and the step in which logout resumes from a signOut that succeeded,
\* end with user = null and roomCode = null; the step in which logout catches
\* a signOut that threw leaves user and roomCode as they were.
C26_LogoutClearsOrLeaves ==
    [][/\ (authEvents # <<>> /\ Head(authEvents) = "SIGNED_OUT"
            /\ Len(authEvents') < Len(authEvents))
            => (authUser' = NullUser /\ authRoomCode' = NullCode)
       /\ (LogoutAt("resume") /\ authPc["logout"].result = "ok"
            /\ authPc'["logout"].at = "idle")
            => (authUser' = NullUser /\ authRoomCode' = NullCode)
       /\ (LogoutAt("signOut") /\ authPc'["logout"].at = "idle")
            => (/\ authPc'["logout"].result = "throw"
                /\ authUser' = authUser
                /\ authRoomCode' = authRoomCode)]_vars

\* A teacher is logged in with a room code, the last logout ended in the catch
\* block because signOut threw, and the teacher and the code are still there.
C26_Witness ==
    /\ LogoutAt("idle")
    /\ authPc["logout"].result = "throw"
    /\ authUser.role = "teacher"
    /\ authRoomCode # NullCode

====
